---- MODULE Spec2Model ----
(***************************************************************************)
(* Model of the seed classification service (src/main.py): the /detect     *)
(* route, SeedDetectionService.detect_seeds, resize_image_if_needed and    *)
(* create_annotated_image, run by a single-threaded asyncio event loop.    *)
(***************************************************************************)
EXTENDS Integers, Sequences, FiniteSets, TLC

VARIABLES lib, req, loop, rin, rout

vars == <<lib, req, loop, rin, rout>>

(***************************************************************************)
(* Bounds of the model.                                                    *)
(***************************************************************************)
MaxDim == 1300
MaxPreds == 3
NumRequests == 2

(***************************************************************************)
(* Program constants.                                                      *)
(***************************************************************************)
MaxSize == 640
MaxUploadMiB == 10
MaxUpload == MaxUploadMiB * 1024 * 1024
StatusOK == 200
MantBits == 53

Max(a, b) == IF a >= b THEN a ELSE b

(***************************************************************************)
(* IEEE-754 binary64 arithmetic, as CPython's float uses it.  A positive   *)
(* float is [mant, exp]: mant is the significand as a sequence of bits,    *)
(* most significant first, and the value is mant * 2^exp.                  *)
(***************************************************************************)
RECURSIVE Pow2(_)
Pow2(n) == IF n = 0 THEN 1 ELSE 2 * Pow2(n - 1)

\* Significands are handled in chunks of ChunkLen bits.
ChunkLen == 13
Base == Pow2(ChunkLen)

RECURSIVE BitsToNat(_)
BitsToNat(bits) ==
    IF bits = <<>> THEN 0
    ELSE 2 * BitsToNat(SubSeq(bits, 1, Len(bits) - 1)) + bits[Len(bits)]

ChunkBits(d) == [i \in 1..ChunkLen |-> (d \div Pow2(ChunkLen - i)) % 2]

RECURSIVE ChunksToBits(_)
ChunksToBits(ds) ==
    IF ds = <<>> THEN <<>> ELSE ChunkBits(Head(ds)) \o ChunksToBits(Tail(ds))

\* The chunks of a bit sequence, least significant chunk last.
RECURSIVE BitsToChunks(_)
BitsToChunks(bits) ==
    IF bits = <<>> THEN <<>>
    ELSE LET n == Len(bits)
             k == IF n % ChunkLen = 0 THEN ChunkLen ELSE n % ChunkLen
         IN <<BitsToNat(SubSeq(bits, 1, k))>> \o BitsToChunks(SubSeq(bits, k + 1, n))

StripZeros(bits) ==
    IF \A i \in 1..Len(bits) : bits[i] = 0 THEN <<>>
    ELSE LET first == CHOOSE i \in 1..Len(bits) :
                          bits[i] = 1 /\ \A j \in 1..(i - 1) : bits[j] = 0
         IN SubSeq(bits, first, Len(bits))

AnyBit(bits) == \E i \in 1..Len(bits) : bits[i] = 1

\* bits + 1, one bit longer when every bit is set.
IncBits(bits) ==
    IF \A i \in 1..Len(bits) : bits[i] = 1
    THEN <<1>> \o [i \in 1..Len(bits) |-> 0]
    ELSE LET last == CHOOSE i \in 1..Len(bits) :
                         bits[i] = 0 /\ \A j \in (i + 1)..Len(bits) : bits[j] = 1
         IN [i \in 1..Len(bits) |->
                IF i < last THEN bits[i] ELSE IF i = last THEN 1 ELSE 0]

\* The significand `keep` plus one unit in the last place, renormalised.
RoundUp(keep, exp) ==
    LET r == IncBits(keep) IN
    IF Len(r) > Len(keep)
    THEN [mant |-> SubSeq(r, 1, Len(keep)), exp |-> exp + 1]
    ELSE [mant |-> r, exp |-> exp]

\* Round an exact significand to MantBits bits, ties to even.
FloatRound(bits0, exp) ==
    LET bits == StripZeros(bits0) IN
    IF Len(bits) <= MantBits THEN [mant |-> bits, exp |-> exp]
    ELSE LET keep == SubSeq(bits, 1, MantBits)
             rest == SubSeq(bits, MantBits + 1, Len(bits))
             up   == Head(rest) = 1 /\ (AnyBit(Tail(rest)) \/ keep[MantBits] = 1)
         IN IF up THEN RoundUp(keep, exp + Len(rest))
            ELSE [mant |-> keep, exp |-> exp + Len(rest)]

RECURSIVE ShiftUp(_, _)
ShiftUp(a, b) == IF a >= b THEN 0 ELSE 1 + ShiftUp(2 * a, b)

RECURSIVE ShiftDown(_, _)
ShiftDown(a, b) == IF a < 2 * b THEN 0 ELSE 1 + ShiftDown(a, 2 * b)

\* Long division, one chunk of the quotient per step.
RECURSIVE DivStep(_, _, _, _)
DivStep(ds, rem, b, n) ==
    IF n = 0 THEN [chunks |-> ds, rem |-> rem]
    ELSE DivStep(Append(ds, (rem * Base) \div b), (rem * Base) % b, b, n - 1)

\* float(a) / float(b) for positive integers a, b: long division to MantBits
\* quotient bits, then round to nearest, ties to even.
FloatDiv(a, b) ==
    LET s    == ShiftUp(a, b)
        a1   == a * Pow2(s)
        t    == ShiftDown(a1, b)
        b1   == b * Pow2(t)
        d    == DivStep(<<>>, a1 - b1, b1, (MantBits - 1) \div ChunkLen)
        bits == <<1>> \o ChunksToBits(d.chunks)
        up   == 2 * d.rem > b1 \/ (2 * d.rem = b1 /\ bits[MantBits] = 1)
        e    == t - s - (MantBits - 1)
    IN IF up THEN RoundUp(bits, e) ELSE [mant |-> bits, exp |-> e]

\* chunks * w + carry, chunk by chunk from the least significant one.
RECURSIVE MulChunks(_, _, _)
MulChunks(ds, w, carry) ==
    IF ds = <<>> THEN <<carry>>
    ELSE LET n == Len(ds)
             v == ds[n] * w + carry
         IN Append(MulChunks(SubSeq(ds, 1, n - 1), w, v \div Base), v % Base)

\* w * x for a positive integer w (converted exactly) and a float x.
FloatMulInt(w, x) ==
    FloatRound(ChunksToBits(MulChunks(BitsToChunks(x.mant), w, 0)), x.exp)

\* A rounding conversion, as round() would do it: the nearest integer.
FloatToNearest(x) ==
    LET n == Len(x.mant) + x.exp IN
    IF x.exp >= 0 THEN BitsToNat(x.mant) * Pow2(x.exp)
    ELSE IF n < 0 THEN 0
    ELSE BitsToNat(SubSeq(x.mant, 1, n)) + x.mant[n + 1]

\* int(x): truncation toward zero.
FloatToInt(x) ==
    LET n == Len(x.mant) + x.exp IN
    IF x.exp >= 0 THEN BitsToNat(x.mant) * Pow2(x.exp)
    ELSE IF n <= 0 THEN 0
    ELSE BitsToNat(SubSeq(x.mant, 1, n))

(***************************************************************************)
(* Images and the resize step.                                             *)
(***************************************************************************)
Modes == {"RGB", "L", "RGBA", "LA", "P"}

Img(w, h, mode) == [width |-> w, height |-> h, mode |-> mode]

Returned(v) == [ok |-> TRUE, value |-> v]
Exc(kind, msg) == [kind |-> kind, status |-> 0, detail |-> msg]
Raised(kind, msg) == [ok |-> FALSE, exc |-> Exc(kind, msg)]

\* new_size of resize_image_if_needed, computed when the image is too large.
new_size(width, height) ==
    LET scale == FloatDiv(MaxSize, Max(width, height)) IN
    <<FloatToInt(FloatMulInt(width, scale)), FloatToInt(FloatMulInt(height, scale))>>

\* Image.resize(size, resample): a size below 1x1 is rejected.
image_resize(image, size) ==
    IF size[1] < 1 \/ size[2] < 1
    THEN Raised("ValueError", <<"height and width must be > 0">>)
    ELSE Returned(Img(size[1], size[2], image.mode))

\* The attribute Image.ANTIALIAS exists only in Pillow releases before 10.
resize_image_if_needed(image) ==
    IF Max(image.width, image.height) > MaxSize
    THEN IF lib.antialias
         THEN image_resize(image, new_size(image.width, image.height))
         ELSE Raised("AttributeError", <<"ANTIALIAS">>)
    ELSE Returned(image)

(***************************************************************************)
(* Library behaviour the source does not pin down.  antialias: whether     *)
(* PIL.Image has the attribute ANTIALIAS.  excStr: whether str() of an     *)
(* HTTPException gives "<status>: <detail>" (the class defines __str__) or *)
(* the empty string (it does not, and the exception has no args).          *)
(***************************************************************************)
Libs == [antialias : BOOLEAN, excStr : BOOLEAN]

(***************************************************************************)
(* Uploads: the multipart file's content type and size hint, and its bytes.*)
(***************************************************************************)
ContentType(none, text) == [none |-> none, text |-> text]
ContentTypes ==
    { ContentType(TRUE, <<>>), ContentType(FALSE, <<>>),
      ContentType(FALSE, <<"text/", "plain">>), ContentType(FALSE, <<"image">>),
      ContentType(FALSE, <<"image/", "png">>) }

\* attr: the upload object has a size attribute; none: its value is None.
SizeHint(attr, none, val) == [attr |-> attr, none |-> none, val |-> val]
SizeHints ==
    { SizeHint(FALSE, TRUE, 0), SizeHint(TRUE, TRUE, 0) }
    \cup { SizeHint(TRUE, FALSE, v) : v \in {0, MaxUpload, MaxUpload + 1, 12 * 1024 * 1024} }

Files == [content_type : ContentTypes, size : SizeHints]
NoFile == [content_type |-> ContentType(TRUE, <<>>), size |-> SizeHint(FALSE, TRUE, 0)]

NoImage == Img(0, 0, "none")
ImageSizes == {<<1, 1>>, <<640, 480>>, <<641, 1>>, <<1077, 1077>>, <<1280, 960>>}
Uploads ==
    { [decodable |-> FALSE, image |-> NoImage] }
    \cup { [decodable |-> TRUE, image |-> Img(sz[1], sz[2], m)] : sz \in ImageSizes, m \in Modes }

(***************************************************************************)
(* The remote detection service's answers.                                 *)
(***************************************************************************)
Confidences == {40000, 90000, 90004}     \* in units of 0.00001

\* A prediction; id stands for its class, detection_id and place in the
\* remote list, geom for the presence of the keys x, y, width, height.
Pred(id, c, geom) == [id |-> id, confidence |-> c, geom |-> geom]

PredLists ==
    UNION { { [i \in 1..n |-> Pred(i, cs[i], TRUE)] : cs \in [1..n -> Confidences] }
            : n \in 0..MaxPreds }

Body(json, has, null, preds, meta) ==
    [json |-> json, hasPreds |-> has, null |-> null, preds |-> preds, meta |-> meta]
NoBody == Body(FALSE, FALSE, FALSE, <<>>, FALSE)
Bodies ==
    { NoBody, Body(TRUE, FALSE, FALSE, <<>>, FALSE), Body(TRUE, TRUE, TRUE, <<>>, FALSE),
      Body(TRUE, TRUE, FALSE, <<Pred(1, 90000, FALSE)>>, TRUE) }
    \cup { Body(TRUE, TRUE, FALSE, l, TRUE) : l \in PredLists }

Reply(kind, status, text, body) ==
    [kind |-> kind, status |-> status, text |-> text, body |-> body]
NoReply == Reply("none", 0, "", NoBody)
Replies ==
    { Reply("timeout", 0, "", NoBody),
      Reply("http", 503, "model overloaded", NoBody),
      Reply("http", 201, "created", NoBody) }
    \cup { Reply("http", StatusOK, "", b) : b \in Bodies }

(***************************************************************************)
(* Pure parts of the handlers.                                             *)
(***************************************************************************)
\* line 163: not file.content_type or not file.content_type.startswith("image/")
BadContentType(ct) == ct.none \/ ct.text = <<>> \/ Head(ct.text) # "image/"

\* line 166: hasattr(file, "size") and file.size and file.size > 10 * 1024 * 1024
TooLarge(size) == size.attr /\ ~size.none /\ size.val # 0 /\ size.val > MaxUpload

HTTPException(status, detail) ==
    [kind |-> "HTTPException", status |-> status, detail |-> detail]

\* str(e)
StrOf(exc) ==
    IF exc.kind = "HTTPException"
    THEN IF lib.excStr THEN <<ToString(exc.status), ": ">> \o exc.detail ELSE <<>>
    ELSE exc.detail

\* Image.open(BytesIO(image_bytes))
image_open(bytes) ==
    IF bytes.decodable THEN Returned(bytes.image)
    ELSE Raised("UnidentifiedImageError", <<"cannot identify image file">>)

\* The modes the JPEG encoder writes.
JpegModes == {"L", "RGB"}

\* image.save(buffer, format="JPEG")
jpeg_save(image) ==
    IF image.mode \in JpegModes THEN Returned(image)
    ELSE Raised("OSError", <<"cannot write mode ", image.mode, " as JPEG">>)

\* image.convert("RGB")
convert_rgb(image) == Img(image.width, image.height, "RGB")

Reverse(s) == [i \in 1..Len(s) |-> s[Len(s) + 1 - i]]

\* Insertion after the elements whose key is not greater: a stable sort.
RECURSIVE InsertAsc(_, _)
InsertAsc(x, s) ==
    IF s = <<>> THEN <<x>>
    ELSE IF x.confidence < Head(s).confidence THEN <<x>> \o s
    ELSE <<Head(s)>> \o InsertAsc(x, Tail(s))

RECURSIVE StableSortAsc(_)
StableSortAsc(s) ==
    IF s = <<>> THEN <<>>
    ELSE InsertAsc(s[Len(s)], StableSortAsc(SubSeq(s, 1, Len(s) - 1)))

\* A descending sort that forgets the order of equal keys.
sorted_unstable(predictions) == Reverse(StableSortAsc(predictions))

\* sorted(predictions, key=lambda x: x['confidence'], reverse=True): the list
\* is reversed, sorted stably in ascending order, and reversed again.
sorted_desc(predictions) == Reverse(StableSortAsc(Reverse(predictions)))

\* round(pred["confidence"], 4), in units of 0.0001 (no sampled value is a tie).
Round4(c) == (c + 5) \div 10

NoAnnotation == [present |-> FALSE, boxes |-> <<>>, mode |-> "none"]

\* A guard that annotates from the second detection on.
NeedsAnnotationOffByOne(predictions) == Len(predictions) > 1

\* line 117: if predictions
NeedsAnnotation(predictions) == predictions # <<>>

\* create_annotated_image: one box per prediction, in the order given, then
\* convert("RGB") and the JPEG encode.
create_annotated_image(image, predictions) ==
    IF \E i \in 1..Len(predictions) : ~predictions[i].geom
    THEN Raised("KeyError", <<"'x'">>)
    ELSE LET rgb_image == convert_rgb(image)
             saved == jpeg_save(rgb_image)
         IN IF saved.ok
            THEN Returned([present |-> TRUE,
                           boxes |-> [i \in 1..Len(predictions) |-> predictions[i].id],
                           mode |-> rgb_image.mode])
            ELSE saved

\* The dict detect_seeds returns.
Envelope(predictions, annotated, body) ==
    [success |-> TRUE,
     message |-> IF predictions # <<>> THEN "Detections found."
                 ELSE "No seeds detected. Try again with a clearer image.",
     detection_count |-> Len(predictions),
     predictions |-> [i \in 1..Len(predictions) |->
                        [id |-> predictions[i].id,
                         confidence |-> Round4(predictions[i].confidence)]],
     image_info |-> IF body.meta THEN "image" ELSE "{}",
     annotated_image |-> annotated,
     processing_time |-> IF body.meta THEN "time" ELSE "0"]

NoEnvelope == Envelope(<<>>, NoAnnotation, NoBody)

Response(status, detail, envelope) ==
    [status |-> status, detail |-> detail, envelope |-> envelope]
NoResponse == Response(0, <<>>, NoEnvelope)

\* What the framework sends for an HTTPException that leaves the route.
ErrorResponse(exc) == Response(exc.status, exc.detail, NoEnvelope)

(***************************************************************************)
(* Requests.                                                               *)
(***************************************************************************)
Requests == 1..NumRequests

NoBytes == [decodable |-> FALSE, image |-> NoImage]

NoRequest ==
    [pc |-> "idle", file |-> NoFile, bytes |-> NoBytes, image |-> NoImage,
     reply |-> NoReply, predictions |-> <<>>, annotated |-> NoAnnotation,
     response |-> NoResponse, trace |-> <<>>, posts |-> 0, saves |-> <<>>,
     failed |-> "no"]

Steps == <<"validate", "decode", "resize", "detect", "annotate", "assemble">>

RaisedExc(exc) == [ok |-> FALSE, exc |-> exc]

\* A size check that also refuses an upload of exactly the limit.
validate_inclusive(file) ==
    IF BadContentType(file.content_type)
    THEN RaisedExc(HTTPException(400, <<"Invalid file type. Must be an image.">>))
    ELSE IF file.size.attr /\ ~file.size.none /\ file.size.val >= MaxUpload
    THEN RaisedExc(HTTPException(400, <<"Image too large. Max size is 10MB.">>))
    ELSE Returned(file)

\* lines 163-167 of detect_seed.
validate(file) ==
    IF BadContentType(file.content_type)
    THEN RaisedExc(HTTPException(400, <<"Invalid file type. Must be an image.">>))
    ELSE IF TooLarge(file.size)
    THEN RaisedExc(HTTPException(400, <<"Image too large. Max size is 10MB.">>))
    ELSE Returned(file)

\* lines 109-114 of detect_seeds: status check, response.json(), the
\* predictions default and the sort.
normalize(reply) ==
    IF reply.status # StatusOK
    THEN RaisedExc(HTTPException(500, <<"Roboflow API error: ", reply.text>>))
    ELSE IF ~reply.body.json
    THEN Raised("JSONDecodeError", <<"Expecting value">>)
    ELSE IF reply.body.hasPreds /\ reply.body.null
    THEN Raised("TypeError", <<"'NoneType' object is not iterable">>)
    ELSE Returned(sorted_desc(IF reply.body.hasPreds THEN reply.body.preds ELSE <<>>))

\* The program counter at which each step of Steps would go on.
PcAfter(step) ==
    CASE step = "decode" -> "resize"
      [] step = "resize" -> "encode"
      [] step = "detect" -> "post"
      [] step = "annotate" -> "assemble"
      [] OTHER -> "done"

\* The route raises HTTPException(400, ...) itself: the request is over.
Reject(q, exc) ==
    [q EXCEPT !.pc = "done", !.failed = "validate", !.response = ErrorResponse(exc)]

\* A handler that notes the exception and goes on with the next step.
CaughtAndContinue(q, step, exc) == [q EXCEPT !.pc = PcAfter(step), !.failed = step]

\* lines 138-139: except Exception as e: raise HTTPException(500, str(e)).
Caught(q, step, exc) ==
    [q EXCEPT !.pc = "done", !.failed = step,
              !.response = ErrorResponse(HTTPException(500, StrOf(exc)))]

(***************************************************************************)
(* The event loop: one thread runs the coroutines.  loop is the request    *)
(* whose coroutine holds the thread, 0 when the thread is free.  A         *)
(* coroutine gives the thread up only at an await or when it ends.         *)
(***************************************************************************)
Runnable(r) == loop = r \/ (loop = 0 /\ req[r].pc \in {"validate", "decode"})

\* The request goes on as q and keeps the thread unless it is over.
Goes(r, q) ==
    /\ req' = [req EXCEPT ![r] = q]
    /\ loop' = IF q.pc = "done" THEN 0 ELSE r

Started(q, step) == [q EXCEPT !.trace = Append(@, step)]

\* A POST /detect request reaches the server.
Arrive(r) ==
    /\ req[r].pc = "idle"
    /\ req' = [req EXCEPT ![r].pc = "validate"]
    /\ UNCHANGED <<lib, loop, rin, rout>>

\* detect_seed, lines 163-167.
Validate(r, files) ==
    /\ req[r].pc = "validate"
    /\ Runnable(r)
    /\ \E f \in files :
         LET q == [Started(req[r], "validate") EXCEPT !.file = f]
             v == validate(f)
         IN IF v.ok THEN Goes(r, [q EXCEPT !.pc = "read"])
            ELSE Goes(r, Reject(q, v.exc))
    /\ UNCHANGED <<lib, rin, rout>>

\* line 82: await file.read(); the coroutine is suspended until the bytes are there.
Read(r, uploads) ==
    /\ req[r].pc = "read"
    /\ loop = r
    /\ \E u \in uploads : req' = [req EXCEPT ![r].pc = "decode", ![r].bytes = u]
    /\ loop' = 0
    /\ UNCHANGED <<lib, rin, rout>>

\* line 83: Image.open.
Decode(r) ==
    /\ req[r].pc = "decode"
    /\ Runnable(r)
    /\ LET q == [Started(req[r], "decode") EXCEPT !.bytes = NoBytes]
           v == image_open(req[r].bytes)
       IN IF v.ok THEN Goes(r, [q EXCEPT !.pc = "resize", !.image = v.value])
          ELSE Goes(r, Caught(q, "decode", v.exc))
    /\ UNCHANGED <<lib, rin, rout>>

\* line 86: resize_image_if_needed.
Resize(r) ==
    /\ req[r].pc = "resize"
    /\ loop = r
    /\ LET q == Started(req[r], "resize")
           v == resize_image_if_needed(req[r].image)
       IN IF v.ok THEN Goes(r, [q EXCEPT !.pc = "encode", !.image = v.value])
          ELSE Goes(r, Caught(q, "resize", v.exc))
    /\ UNCHANGED <<lib, rin, rout>>

\* lines 89-91: the JPEG encode of the image for the upload.
Encode(r) ==
    /\ req[r].pc = "encode"
    /\ loop = r
    /\ LET q == [Started(req[r], "detect") EXCEPT !.saves = Append(@, req[r].image.mode)]
           v == jpeg_save(req[r].image)
       IN IF v.ok THEN Goes(r, [q EXCEPT !.pc = "post"])
          ELSE Goes(r, Caught(q, "detect", v.exc))
    /\ UNCHANGED <<lib, rin, rout>>

\* lines 101-107: requests.post is entered; it blocks the thread.
Post(r) ==
    /\ req[r].pc = "post"
    /\ loop = r
    /\ Goes(r, [req[r] EXCEPT !.pc = "wait", !.posts = @ + 1])
    /\ UNCHANGED <<lib, rin, rout>>

\* requests.post returns a response or raises (timeout, connection failure).
Receive(r, replies) ==
    /\ req[r].pc = "wait"
    /\ loop = r
    /\ \E rep \in replies :
         IF rep.kind = "timeout"
         THEN Goes(r, Caught(req[r], "detect", Exc("ReadTimeout", <<"Read timed out.">>)))
         ELSE Goes(r, [req[r] EXCEPT !.pc = "check", !.reply = rep])
    /\ UNCHANGED <<lib, rin, rout>>

\* lines 109-117.
Normalize(r) ==
    /\ req[r].pc = "check"
    /\ loop = r
    /\ LET v == normalize(req[r].reply)
       IN IF v.ok
          THEN Goes(r, [req[r] EXCEPT !.predictions = v.value,
                           !.pc = IF NeedsAnnotation(v.value) THEN "annotate"
                                  ELSE "assemble"])
          ELSE Goes(r, Caught(req[r], "detect", v.exc))
    /\ UNCHANGED <<lib, rin, rout>>

\* line 118: create_annotated_image.
Annotate(r) ==
    /\ req[r].pc = "annotate"
    /\ loop = r
    /\ LET v == create_annotated_image(req[r].image, req[r].predictions)
           q == [Started(req[r], "annotate") EXCEPT
                   !.saves = IF v.ok \/ v.exc.kind = "OSError"
                             THEN Append(@, convert_rgb(req[r].image).mode) ELSE @]
       IN IF v.ok THEN Goes(r, [q EXCEPT !.pc = "assemble", !.annotated = v.value])
          ELSE Goes(r, Caught(q, "annotate", v.exc))
    /\ UNCHANGED <<lib, rin, rout>>

\* lines 120-136 and 170: the envelope is built and sent.
Assemble(r) ==
    /\ req[r].pc = "assemble"
    /\ loop = r
    /\ Goes(r, [Started(req[r], "assemble") EXCEPT
                  !.pc = "done",
                  !.response = Response(StatusOK, <<>>,
                      Envelope(req[r].predictions, req[r].annotated, req[r].reply.body))])
    /\ UNCHANGED <<lib, rin, rout>>

NoResult == Raised("none", <<>>)
NoResize == [called |-> FALSE, size |-> <<0, 0>>, asked |-> FALSE, result |-> NoResult]

Init ==
    /\ lib \in Libs
    /\ req = [r \in Requests |-> NoRequest]
    /\ loop = 0
    /\ rin = NoImage
    /\ rout = NoResize

\* One request at a time, over every upload and every remote answer.
Next ==
    \/ Arrive(1)
    \/ Validate(1, Files)
    \/ Read(1, Uploads)
    \/ Decode(1)
    \/ Resize(1)
    \/ Encode(1)
    \/ Post(1)
    \/ Receive(1, Replies)
    \/ Normalize(1)
    \/ Annotate(1)
    \/ Assemble(1)

Spec == Init /\ [][Next]_vars

(***************************************************************************)
(* Several requests in one server process, over a small workload.          *)
(***************************************************************************)
FewFiles == {[content_type |-> ContentType(FALSE, <<"image/", "png">>),
              size |-> SizeHint(TRUE, FALSE, MaxUpload)]}
FewUploads == {[decodable |-> TRUE, image |-> Img(640, 480, "RGB")]}
FewReplies ==
    { Reply("timeout", 0, "", NoBody),
      Reply("http", 503, "model overloaded", NoBody),
      Reply("http", StatusOK, "", Body(TRUE, TRUE, FALSE, <<>>, TRUE)),
      Reply("http", StatusOK, "", Body(TRUE, TRUE, FALSE, <<Pred(1, 90000, TRUE)>>, TRUE)) }

NextServer ==
    \E r \in Requests :
        \/ Arrive(r)
        \/ Validate(r, FewFiles \cup {NoFile})
        \/ Read(r, FewUploads \cup {NoBytes})
        \/ Decode(r)
        \/ Resize(r)
        \/ Encode(r)
        \/ Post(r)
        \/ Receive(r, FewReplies)
        \/ Normalize(r)
        \/ Annotate(r)
        \/ Assemble(r)

SpecServer == Init /\ [][NextServer]_vars

(***************************************************************************)
(* The resize step alone, over images of every shape up to MaxDim.         *)
(***************************************************************************)
LongSides == {1, 2, 640, 641, 716, 980, 1077, 1280, MaxDim}


InitResize ==
    /\ lib \in {l \in Libs : l.excStr}
    /\ \E long \in LongSides, short \in 1..MaxDim, mode \in {"RGB"} :
         /\ short <= long
         /\ rin \in {Img(long, short, mode), Img(short, long, mode)}
    /\ rout = NoResize
    /\ req = [r \in Requests |-> NoRequest]
    /\ loop = 0

ResizeCall ==
    /\ ~rout.called
    /\ rout' = [called |-> TRUE,
                size   |-> IF Max(rin.width, rin.height) > MaxSize
                           THEN new_size(rin.width, rin.height)
                           ELSE <<rin.width, rin.height>>,
                asked  |-> Max(rin.width, rin.height) > MaxSize /\ lib.antialias,
                result |-> resize_image_if_needed(rin)]
    /\ UNCHANGED <<lib, req, loop, rin>>

NextResize == ResizeCall

SpecResize == InitResize /\ [][NextResize]_vars

(***************************************************************************)
(* Properties.                                                             *)
(***************************************************************************)
Range(s) == {s[i] : i \in 1..Len(s)}
AbsDiff(a, b) == IF a >= b THEN a - b ELSE b - a
Answered(r) == req[r].pc = "done"
Succeeded(r) == req[r].response.status = StatusOK
Normalized(r) == req[r].pc \in {"annotate", "assemble"} \/ Succeeded(r)
NoSeedsMessage == "No seeds detected. Try again with a clearer image."

\* The remote service answered 200 with JSON whose predictions list is empty
\* or missing.
NoPredictionsReply(r) ==
    /\ req[r].reply.kind = "http"
    /\ req[r].reply.status = StatusOK
    /\ req[r].reply.body.json
    /\ \/ ~req[r].reply.body.hasPreds
       \/ (~req[r].reply.body.null /\ req[r].reply.body.preds = <<>>)

\* C1: in every successful envelope annotated_image is present iff
\* detection_count > 0, and a request whose remote answer has an empty or
\* missing predictions list ends with success = true, detection_count = 0,
\* no annotated_image and the "no seeds detected" message.
C1_AnnotatedIffDetections ==
    \A r \in Requests :
        LET e == req[r].response.envelope IN
        /\ Succeeded(r) => (e.annotated_image.present <=> e.detection_count > 0)
        /\ (Answered(r) /\ NoPredictionsReply(r)) =>
              /\ Succeeded(r)
              /\ e.success
              /\ e.detection_count = 0
              /\ ~e.annotated_image.present
              /\ e.message = NoSeedsMessage

C1_Witness ==
    \E r \in Requests :
        /\ Succeeded(r)
        /\ req[r].response.envelope.detection_count > 1
        /\ req[r].response.envelope.annotated_image.present

\* C2: the sequence detect_seeds hands to create_annotated_image and returns
\* in the envelope is the stable descending sort of the remote list: a
\* permutation of it, non-increasing in confidence, equal confidences in
\* their original order.
C2_StableDescendingSort ==
    \A r \in Requests :
        Normalized(r) =>
            LET remote == IF req[r].reply.body.hasPreds THEN req[r].reply.body.preds
                          ELSE <<>>
                ps == req[r].predictions
                n == Len(ps)
            IN /\ n = Len(remote)
               /\ {ps[i].id : i \in 1..n} = 1..n
               /\ \A i \in 1..n : ps[i] = remote[ps[i].id]
               /\ \A i, j \in 1..n :
                     i < j => /\ ps[i].confidence >= ps[j].confidence
                              /\ (ps[i].confidence = ps[j].confidence => ps[i].id < ps[j].id)
               /\ req[r].annotated.present =>
                     req[r].annotated.boxes = [i \in 1..n |-> ps[i].id]
               /\ Succeeded(r) =>
                     LET es == req[r].response.envelope.predictions IN
                     /\ Len(es) = n
                     /\ \A i \in 1..n : es[i].id = ps[i].id
                     /\ \A i, j \in 1..n : i < j => es[i].confidence >= es[j].confidence

C2_Witness ==
    \E r \in Requests :
        LET remote == req[r].reply.body.preds IN
        /\ Succeeded(r)
        /\ req[r].annotated.present
        /\ \E i, j \in 1..Len(remote) : i < j /\ remote[i].confidence < remote[j].confidence
        /\ \E i, j \in 1..Len(remote) : i < j /\ remote[i].confidence = remote[j].confidence

\* The uploads the claim says are refused: content type missing or not
\* starting with "image/", or a size hint that is there and above 10 MiB.
Refusable(file) ==
    \/ file.content_type.none
    \/ file.content_type.text = <<>>
    \/ Head(file.content_type.text) # "image/"
    \/ (file.size.attr /\ ~file.size.none /\ file.size.val > MaxUploadMiB * 1024 * 1024)

\* C3: a request is answered 400, in the validate step, exactly when its
\* upload is refusable; without a size hint it is never refused for size;
\* every other request enters the pipeline, whose failures give 500.
C3_Validation ==
    \A r \in Requests :
        req[r].trace # <<>> =>
            /\ req[r].response.status = 400 <=> Refusable(req[r].file)
            /\ Refusable(req[r].file) => (Answered(r) /\ req[r].trace = <<"validate">>)
            /\ ~Refusable(req[r].file) =>
                  /\ req[r].failed # "validate"
                  /\ Answered(r) => req[r].response.status \in {StatusOK, 500}
                  /\ req[r].failed # "no" => req[r].response.status = 500

C3_Witness ==
    \E r \in Requests :
        /\ req[r].response.status = 400
        /\ ~BadContentType(req[r].file.content_type)
        /\ req[r].file.size.val = MaxUpload + 1

\* C4: a remote answer with a status other than 200 ends the request with
\* status 500 and an error body that includes the upstream body text.
C4_UpstreamTextSurfaced ==
    \A r \in Requests :
        (Answered(r) /\ req[r].reply.kind = "http" /\ req[r].reply.status # StatusOK) =>
            /\ req[r].response.status = 500
            /\ req[r].reply.text \in Range(req[r].response.detail)

\* C5: resize_image_if_needed returns, for every image, an image of the same
\* dimensions when max(width, height) <= 640, and otherwise one whose larger
\* side is 640 within 1 pixel and whose sides are within 1 pixel of
\* side * 640 / max(width, height).
C5_ResizeDimensions ==
    rout.called =>
        LET m == Max(rin.width, rin.height) IN
        /\ rout.result.ok
        /\ IF m <= MaxSize
           THEN /\ rout.result.value.width = rin.width
                /\ rout.result.value.height = rin.height
           ELSE /\ AbsDiff(Max(rout.result.value.width, rout.result.value.height), MaxSize) <= 1
                /\ AbsDiff(rout.result.value.width * m, rin.width * MaxSize) <= m
                /\ AbsDiff(rout.result.value.height * m, rin.height * MaxSize) <= m

\* C6: the steps run in the order validate, decode, resize, detect, annotate,
\* assemble; the first failure ends the request; the remote call is made at
\* most once and never after a validation or decode failure; the request
\* ends with exactly one outcome, an envelope or an error payload.
StepOrders ==
    {SubSeq(Steps, 1, n) : n \in 0..Len(Steps)}
    \cup {<<"validate", "decode", "resize", "detect", "assemble">>}

C6_Inv ==
    \A r \in Requests :
        LET q == req[r] IN
        /\ q.trace \in StepOrders
        /\ q.posts <= 1
        /\ q.posts = 1 => "detect" \in Range(q.trace)
        /\ q.failed # "no" =>
              /\ Answered(r)
              /\ q.trace # <<>> /\ q.trace[Len(q.trace)] = q.failed
              /\ q.response.status \in {400, 500}
              /\ q.response.envelope = NoEnvelope
        /\ q.failed \in {"validate", "decode", "resize"} => q.posts = 0
        /\ Answered(r) <=> q.response # NoResponse
        /\ Succeeded(r) =>
              /\ q.failed = "no"
              /\ q.trace[Len(q.trace)] = "assemble"
              /\ q.posts = 1
              /\ q.response.envelope.detection_count = Len(q.response.envelope.predictions)

C6_Step ==
    \A r \in Requests :
        /\ Answered(r) => req'[r] = req[r]
        /\ req'[r].posts >= req[r].posts
        /\ \/ req'[r].trace = req[r].trace
           \/ \E s \in Range(Steps) : req'[r].trace = Append(req[r].trace, s)

C6_SequentialAllOrNothing == []C6_Inv /\ [][C6_Step]_vars

C6_Witness ==
    \E r \in Requests :
        /\ Answered(r)
        /\ req[r].failed = "detect"
        /\ req[r].posts = 1
        /\ req[r].reply.kind = "none"

\* C7: no JPEG encode, of the upload or of the annotated image, is applied
\* to an image in a mode with an alpha channel.
AlphaModes == {"RGBA", "LA"}

C7_NoAlphaJpegEncode ==
    \A r \in Requests : \A i \in 1..Len(req[r].saves) : req[r].saves[i] \notin AlphaModes

\* C8 as stated: above the limit each new dimension is side * scale rounded
\* to the nearest integer.
C8_RoundedToNearest ==
    (rout.called /\ Max(rin.width, rin.height) > MaxSize) =>
        LET m == Max(rin.width, rin.height) IN
        /\ 2 * AbsDiff(rout.size[1] * m, rin.width * MaxSize) <= m
        /\ 2 * AbsDiff(rout.size[2] * m, rin.height * MaxSize) <= m

\* C8 amended: above the limit each new dimension is side * scale truncated
\* toward zero: never above side * 640 / max(width, height), less than one
\* pixel below it when that value is no integer, and that integer or the one
\* below it when it is.
TruncatedDim(d, side, m) ==
    /\ d * m <= side * MaxSize
    /\ side * MaxSize <= (d + 1) * m
    /\ (side * MaxSize) % m # 0 => d = (side * MaxSize) \div m

C8_Truncated ==
    (rout.called /\ Max(rin.width, rin.height) > MaxSize) =>
        LET m == Max(rin.width, rin.height) IN
        /\ TruncatedDim(rout.size[1], rin.width, m)
        /\ TruncatedDim(rout.size[2], rin.height, m)

C8_Witness ==
    /\ rout.called
    /\ rin.width = 1077 /\ rin.height = 809
    /\ rout.size = <<639, 480>>

\* C9: while one request waits for its remote answer, every other request
\* that has arrived and is not yet answered can take its next step.
C9_NoBlocking ==
    \A r1, r2 \in Requests :
        (r1 # r2 /\ req[r1].pc = "wait" /\ req[r2].pc \notin {"idle", "done"}) =>
            Runnable(r2)

\* C10: the target size the resize step asks Image.resize for has width and
\* height of at least 1, for every image with width and height of at least 1.
C10_TargetSizePositive ==
    (rout.called /\ rout.asked /\ rin.width >= 1 /\ rin.height >= 1) =>
        (rout.size[1] >= 1 /\ rout.size[2] >= 1)

====
